---- MODULE Spec2Model ----
(***************************************************************************)
(* A model of the agent-rusty dashboard: the reducer of src/app.rs, the    *)
(* main loop and its two producer tasks of src/main.rs, and the status     *)
(* classifier of src/tmux/heuristics.rs.                                   *)
(*                                                                         *)
(* Three specifications share the variables:                               *)
(*   Spec          the dashboard with the full key and registry alphabets; *)
(*                 a producer sends when the bus is empty;                 *)
(*   SpecBus       the dashboard with a small alphabet and a bus that      *)
(*                 holds up to MaxChan events;                             *)
(*   SpecClassify  the classifier applied to a captured pane;              *)
(*   SpecPoll      the loop with the poller task taken step by step        *)
(*                 through list_sessions (SpecPollFair, SpecLoopFair: the  *)
(*                 same with fairness).                                    *)
(***************************************************************************)
EXTENDS Integers, Sequences, FiniteSets, TLC

VARIABLES
    app,        \* the App struct of src/app.rs (a record of its fields)
    chan,       \* the unbounded mpsc channel of main.rs:27, oldest first
    pc,         \* where the main loop of main.rs:72-157 stands
    todo,       \* the drained commands the for loop of main.rs:77 still holds
    term,       \* who holds the terminal: "tui", "released" or "restored"
    prefix,     \* classifier input: lines put in front of the snapshot
    snapshot,   \* classifier input: the captured pane text
    status,     \* classifier output: "Pending" until analyze has run
    poll,       \* the poller task of main.rs:49-63, inside list_sessions
    mux         \* the multiplexer as the poller finds it: "up" or "down"

vars == <<app, chan, pc, todo, term, prefix, snapshot, status, poll, mux>>
dashVars == <<app, chan, pc, todo, term>>
classVars == <<prefix, snapshot, status>>
pollVars == <<poll, mux>>

(***************************************************************************)
(* Bounds of the model.                                                    *)
(***************************************************************************)
MaxSessions == 3
MaxBuf == 1
MaxChan == 2
MaxFill == 20

(***************************************************************************)
(* Option<T> is a sequence of length at most one.                          *)
(***************************************************************************)
None == <<>>
Some(x) == <<x>>

(***************************************************************************)
(* Keys (crossterm KeyEvent: a code and the CONTROL modifier).             *)
(***************************************************************************)
Char(c) == [code |-> "Char", c |-> c, ctrl |-> FALSE]
CtrlChar(c) == [code |-> "Char", c |-> c, ctrl |-> TRUE]
Named(code) == [code |-> code, c |-> "", ctrl |-> FALSE]

\* char::is_alphanumeric on the characters the model uses
Alphanumeric == {"a", "b", "c", "d", "j", "k", "n", "q", "y", "M", "N", "Y", "1", "2"}

is_alphanumeric(c) == c \in Alphanumeric

Keys ==
    {Char(c) : c \in {"q", "j", "k", "M", "n", "d", "y", "Y", "N", "#", "-", "_"}}
        \cup {CtrlChar("c")}
        \cup {Named(n) : n \in {"Enter", "Esc", "Backspace", "Down", "Up"}}

BusKeys == {Char("q"), Char("y"), Named("Enter")}

(***************************************************************************)
(* Sessions and registries. A session is identified by its id; the         *)
(* registries a poll can return are the first n sessions of the            *)
(* multiplexer in either order.                                            *)
(***************************************************************************)
TmuxSession(i) == [id |-> i]

Ascending(n) == [i \in 1..n |-> TmuxSession(i - 1)]
Descending(n) == [i \in 1..n |-> TmuxSession(n - i)]

Registries == {Ascending(n) : n \in 0..MaxSessions} \cup {Descending(n) : n \in 0..MaxSessions}

BusRegistries == {Ascending(0), Ascending(1)}

(***************************************************************************)
(* Actions (src/actions.rs) and the messages of the footer.                *)
(***************************************************************************)
KeyPress(k) == [type |-> "KeyPress", key |-> k]
SessionsUpdated(r) == [type |-> "SessionsUpdated", sessions |-> r]
ErrorAction(m) == [type |-> "Error", msg |-> m]
Quit == [type |-> "Quit"]
ToggleMcpMode == [type |-> "ToggleMcpMode"]
AttachSession(id) == [type |-> "AttachSession", id |-> id]
CreateSession(name) == [type |-> "CreateSession", name |-> name]
DeleteSession(id) == [type |-> "DeleteSession", id |-> id]
CopySkeleton == [type |-> "CopySkeleton"]

\* a message is its format string and the argument formatted into it
Msg(text, arg) == [text |-> text, arg |-> arg]

PollError == Msg("Tmux: {}", <<"e">>)

(***************************************************************************)
(* App (src/app.rs).                                                       *)
(***************************************************************************)
AppNew ==
    [sessions |-> <<>>,
     list_state |-> Some(0),
     error_message |-> None,
     mcp_mode |-> FALSE,
     input_mode |-> "Normal",
     input_buffer |-> <<>>,
     pending_actions |-> <<>>]

\* self.list_state.selected().and_then(|i| self.sessions.get(i))
selected_session(a) ==
    IF a.list_state # None /\ a.list_state[1] < Len(a.sessions)
    THEN Some(a.sessions[a.list_state[1] + 1])
    ELSE None

\* take_pending_actions leaving the queue as it is
take_pending_actions_keep(a) == [taken |-> a.pending_actions, app |-> a]

take_pending_actions(a) ==
    [taken |-> a.pending_actions, app |-> [a EXCEPT !.pending_actions = <<>>]]

\* NextIndex without the wrap: the cursor stops at the last index
NextIndexSaturating(sel, len) ==
    IF sel = None THEN 0
    ELSE IF sel[1] >= len - 1 THEN len - 1 ELSE sel[1] + 1

NextIndex(sel, len) ==
    IF sel = None THEN 0
    ELSE IF sel[1] >= len - 1 THEN 0 ELSE sel[1] + 1

next_session(a) ==
    IF a.sessions = <<>> THEN a
    ELSE [a EXCEPT !.list_state = Some(NextIndex(a.list_state, Len(a.sessions)))]

\* PreviousIndex wrapping to the length instead of the last index
PreviousIndexPastEnd(sel, len) ==
    IF sel = None THEN 0
    ELSE IF sel[1] = 0 THEN len ELSE sel[1] - 1

PreviousIndex(sel, len) ==
    IF sel = None THEN 0
    ELSE IF sel[1] = 0 THEN len - 1 ELSE sel[1] - 1

previous_session(a) ==
    IF a.sessions = <<>> THEN a
    ELSE [a EXCEPT !.list_state = Some(PreviousIndex(a.list_state, Len(a.sessions)))]

Continue(a) == [app |-> a, quit |-> FALSE]
QuitLoop(a) == [app |-> a, quit |-> TRUE]

Push(a, action) == [a EXCEPT !.pending_actions = Append(@, action)]

\* normal_enter attaching to the first session instead of the selected one
normal_enter_first(a) ==
    IF selected_session(a) # None
    THEN Push(a, AttachSession(a.sessions[1].id))
    ELSE a

\* Enter in Normal mode (app.rs:138-143)
normal_enter(a) ==
    IF selected_session(a) # None
    THEN Push(a, AttachSession(selected_session(a)[1].id))
    ELSE a

\* normal_d without the check that a session is selected
normal_d_ungated(a) == [a EXCEPT !.input_mode = "Confirming"]

\* d in Normal mode (app.rs:148-152)
normal_d(a) ==
    IF selected_session(a) # None THEN [a EXCEPT !.input_mode = "Confirming"] ELSE a

handle_normal_key(a, key) ==
    IF key.code = "Char" /\ key.c = "q" THEN QuitLoop(a)
    ELSE IF (key.code = "Char" /\ key.c = "j") \/ key.code = "Down"
        THEN Continue(next_session(a))
    ELSE IF (key.code = "Char" /\ key.c = "k") \/ key.code = "Up"
        THEN Continue(previous_session(a))
    ELSE IF key.code = "Char" /\ key.c = "M"
        THEN Continue([a EXCEPT !.mcp_mode = ~@])
    ELSE IF key.code = "Enter"
        THEN Continue(normal_enter(a))
    ELSE IF key.code = "Char" /\ key.c = "n"
        THEN Continue([a EXCEPT !.input_mode = "Creating", !.input_buffer = <<>>])
    ELSE IF key.code = "Char" /\ key.c = "d"
        THEN Continue(normal_d(a))
    ELSE IF key.code = "Char" /\ key.c = "y"
        THEN Continue(Push(a, CopySkeleton))
    ELSE IF key.code = "Char" /\ key.c = "c" /\ key.ctrl
        THEN QuitLoop(a)
    ELSE Continue(a)

\* AllowedNameChar without the filter
AllowedNameCharAny(c) == TRUE

AllowedNameChar(c) == is_alphanumeric(c) \/ c = "-" \/ c = "_"

Pop(s) == IF s = <<>> THEN s ELSE SubSeq(s, 1, Len(s) - 1)

\* creating_enter without the check that the buffer is non-empty
creating_enter_unchecked(a) ==
    [Push(a, CreateSession(a.input_buffer))
        EXCEPT !.input_buffer = <<>>, !.input_mode = "Normal"]

\* Enter in Creating mode (app.rs:166-173)
creating_enter(a) ==
    IF a.input_buffer # <<>>
    THEN [Push(a, CreateSession(a.input_buffer))
             EXCEPT !.input_buffer = <<>>, !.input_mode = "Normal"]
    ELSE [a EXCEPT !.input_mode = "Normal"]

\* creating_esc leaving the buffer as it is
creating_esc_keeping(a) == [a EXCEPT !.input_mode = "Normal"]

\* Esc in Creating mode (app.rs:174-177)
creating_esc(a) == [a EXCEPT !.input_buffer = <<>>, !.input_mode = "Normal"]

\* a character key in Creating mode (app.rs:178-183)
creating_char(a, c) ==
    IF AllowedNameChar(c) THEN [a EXCEPT !.input_buffer = Append(@, c)] ELSE a

\* Backspace in Creating mode (app.rs:184-186)
creating_backspace(a) == [a EXCEPT !.input_buffer = Pop(@)]

handle_creating_key(a, key) ==
    IF key.code = "Enter" THEN Continue(creating_enter(a))
    ELSE IF key.code = "Esc" THEN Continue(creating_esc(a))
    ELSE IF key.code = "Char" THEN Continue(creating_char(a, key.c))
    ELSE IF key.code = "Backspace" THEN Continue(creating_backspace(a))
    ELSE Continue(a)

\* confirming_yes deleting the first session instead of the selected one
confirming_yes_first(a) ==
    IF selected_session(a) # None
    THEN [Push(a, DeleteSession(a.sessions[1].id)) EXCEPT !.input_mode = "Normal"]
    ELSE [a EXCEPT !.input_mode = "Normal"]

\* y or Y in Confirming mode (app.rs:194-200)
confirming_yes(a) ==
    IF selected_session(a) # None
    THEN [Push(a, DeleteSession(selected_session(a)[1].id)) EXCEPT !.input_mode = "Normal"]
    ELSE [a EXCEPT !.input_mode = "Normal"]

\* n, N or Esc in Confirming mode (app.rs:201-203)
confirming_no(a) == [a EXCEPT !.input_mode = "Normal"]

\* handle_confirming_key with Ctrl-C quitting
handle_confirming_key_quitting(a, key) ==
    IF key.code = "Char" /\ key.c = "c" /\ key.ctrl THEN QuitLoop(a)
    ELSE IF key.code = "Char" /\ key.c \in {"y", "Y"} THEN Continue(confirming_yes(a))
    ELSE IF (key.code = "Char" /\ key.c \in {"n", "N"}) \/ key.code = "Esc"
        THEN Continue(confirming_no(a))
    ELSE Continue(a)

handle_confirming_key(a, key) ==
    IF key.code = "Char" /\ key.c \in {"y", "Y"} THEN Continue(confirming_yes(a))
    ELSE IF (key.code = "Char" /\ key.c \in {"n", "N"}) \/ key.code = "Esc"
        THEN Continue(confirming_no(a))
    ELSE Continue(a)

\* ClearMessage clearing in every mode
ClearMessageAnyMode(a) == [a EXCEPT !.error_message = None]

ClearMessage(a) ==
    IF a.error_message # None /\ a.input_mode = "Normal"
    THEN [a EXCEPT !.error_message = None]
    ELSE a

\* handle_key with `q` quitting in every mode
handle_key_q_anywhere(a, key) ==
    LET b == ClearMessage(a)
    IN  IF key.code = "Char" /\ key.c = "q" THEN QuitLoop(b)
        ELSE IF b.input_mode = "Normal" THEN handle_normal_key(b, key)
        ELSE IF b.input_mode = "Creating" THEN handle_creating_key(b, key)
        ELSE handle_confirming_key(b, key)

handle_key(a, key) ==
    LET b == ClearMessage(a)
    IN  IF b.input_mode = "Normal" THEN handle_normal_key(b, key)
        ELSE IF b.input_mode = "Creating" THEN handle_creating_key(b, key)
        ELSE handle_confirming_key(b, key)

\* ClampSelection without the clamp
ClampSelectionNever(sel, len) == sel

\* the selection after the registry is replaced by one of length len
ClampSelection(sel, len) ==
    IF sel # None /\ sel[1] >= len /\ len # 0 THEN Some(len - 1) ELSE sel

\* sessions_updated keeping the old registry when the new one is empty
sessions_updated_keep_on_empty(a, sessions) ==
    IF sessions = <<>> THEN a
    ELSE [a EXCEPT !.sessions = sessions,
                   !.list_state = ClampSelection(a.list_state, Len(sessions))]

\* sessions_updated moving the cursor to where the selected session now is
sessions_updated_by_identity(a, sessions) ==
    LET old == selected_session(a)
        at == IF old = None THEN {}
              ELSE {i \in 1..Len(sessions) : sessions[i].id = old[1].id}
    IN  [a EXCEPT !.sessions = sessions,
                  !.list_state =
                      IF at # {} THEN Some((CHOOSE i \in at : TRUE) - 1)
                      ELSE ClampSelection(a.list_state, Len(sessions))]

sessions_updated(a, sessions) ==
    [a EXCEPT !.sessions = sessions,
              !.list_state = ClampSelection(a.list_state, Len(sessions))]

handle_action(a, action) ==
    IF action.type = "KeyPress" THEN handle_key(a, action.key)
    ELSE IF action.type = "SessionsUpdated"
        THEN Continue(sessions_updated(a, action.sessions))
    ELSE IF action.type = "Error"
        THEN Continue([a EXCEPT !.error_message = Some(action.msg)])
    ELSE IF action.type = "Quit" THEN QuitLoop(a)
    ELSE Continue(a)

(***************************************************************************)
(* The main loop (src/main.rs:72-157).                                     *)
(*   "render"     line 74: about to draw, then drain the pending queue     *)
(*   "exec"       lines 77-140: about to execute Head(todo)                *)
(*   "attaching"  lines 84-89: the foreground attach is running            *)
(*   "awaiting"   lines 99, 109, 119: a gateway call is outstanding        *)
(*   "recv"       lines 143-156: waiting on the channel                    *)
(*   "exit_ok"    line 148 and 160-161; "exit_err": the ? of line 74       *)
(***************************************************************************)
\* NextPc going on to receive with the drained commands left unexecuted
NextPcSkipping(rest) == "recv"

NextPc(rest) == IF rest = <<>> THEN "recv" ELSE "exec"

\* What List's stateful render may do to the ListState it is handed
\* (app.rs:299-348): the list always holds at least one item, the
\* placeholder when there is no session; a selection past the items is
\* either left alone or moved to the last item, depending on the widget.
RenderedSelections(a) ==
    LET items == IF a.sessions = <<>> THEN 1 ELSE Len(a.sessions)
    IN  {a.list_state} \cup
        {IF a.list_state # None /\ a.list_state[1] >= items
         THEN Some(items - 1) ELSE a.list_state}

Render ==
    /\ pc = "render"
    /\ \E sel \in RenderedSelections(app) :
        LET t == take_pending_actions([app EXCEPT !.list_state = sel])
        IN  /\ app' = t.app
            /\ todo' = t.taken
            /\ pc' = NextPc(t.taken)
    /\ UNCHANGED <<chan, term, classVars, pollVars>>

RenderFail ==
    /\ pc = "render"
    /\ pc' = "exit_err"
    /\ UNCHANGED <<app, chan, todo, term, classVars, pollVars>>

\* ratatui::restore() and the spawn of the attach command (main.rs:81-89)
AttachRelease ==
    /\ pc = "exec"
    /\ todo # <<>>
    /\ Head(todo).type = "AttachSession"
    /\ term' = "released"
    /\ pc' = "attaching"
    /\ UNCHANGED <<app, chan, todo, classVars, pollVars>>

\* AttachReturn taking the terminal back only when the attach succeeded
AttachReturnOnSuccessOnly ==
    /\ pc = "attaching"
    /\ \E ok \in BOOLEAN :
        /\ term' = IF ok THEN "tui" ELSE "released"
        /\ app' = IF ok THEN app
                  ELSE [app EXCEPT !.error_message = Some(Msg("Failed to attach: {}", <<"e">>))]
    /\ todo' = Tail(todo)
    /\ pc' = NextPc(Tail(todo))
    /\ UNCHANGED <<chan, classVars, pollVars>>

\* the attach returned: ratatui::init(), then the message (main.rs:92-96)
AttachReturn ==
    /\ pc = "attaching"
    /\ term' = "tui"
    /\ \E ok \in BOOLEAN :
        app' = IF ok THEN app
               ELSE [app EXCEPT !.error_message = Some(Msg("Failed to attach: {}", <<"e">>))]
    /\ todo' = Tail(todo)
    /\ pc' = NextPc(Tail(todo))
    /\ UNCHANGED <<chan, classVars, pollVars>>

\* CommandCall not waiting for the call to finish
CommandCallDetached ==
    /\ pc = "exec"
    /\ todo # <<>>
    /\ Head(todo).type # "AttachSession"
    /\ pc' = NextPc(Tail(todo))
    /\ todo' = Tail(todo)
    /\ UNCHANGED <<app, chan, term, classVars, pollVars>>

\* create_session / kill_session / generate_skeleton is called and awaited
CommandCall ==
    /\ pc = "exec"
    /\ todo # <<>>
    /\ Head(todo).type # "AttachSession"
    /\ IF Head(todo).type \in {"CreateSession", "DeleteSession", "CopySkeleton"}
       THEN pc' = "awaiting" /\ todo' = todo
       ELSE pc' = NextPc(Tail(todo)) /\ todo' = Tail(todo)
    /\ UNCHANGED <<app, chan, term, classVars, pollVars>>

\* the messages a finished command can leave (main.rs:98-137)
Outcomes(cmd) ==
    IF cmd.type = "CreateSession"
        THEN {Msg("Session '{}' created", cmd.name), Msg("Failed to create: {}", <<"e">>)}
    ELSE IF cmd.type = "DeleteSession"
        THEN {Msg("Session deleted", <<>>), Msg("Failed to delete: {}", <<"e">>)}
    ELSE {Msg("Skeleton copied to clipboard!", <<>>), Msg("Clipboard error: {}", <<"e">>),
          Msg("Skeleton error: {}", <<"e">>)}

\* CommandReturn emptying the registry as well
CommandReturnClearing ==
    /\ pc = "awaiting"
    /\ \E m \in Outcomes(Head(todo)) :
        app' = [app EXCEPT !.error_message = Some(m), !.sessions = <<>>]
    /\ todo' = Tail(todo)
    /\ pc' = NextPc(Tail(todo))
    /\ UNCHANGED <<chan, term, classVars, pollVars>>

CommandReturn ==
    /\ pc = "awaiting"
    /\ \E m \in Outcomes(Head(todo)) :
        app' = [app EXCEPT !.error_message = Some(m)]
    /\ todo' = Tail(todo)
    /\ pc' = NextPc(Tail(todo))
    /\ UNCHANGED <<chan, term, classVars, pollVars>>

\* Received taking the newest event instead of the oldest
ReceivedNewest(c) == c[Len(c)]

\* the event the select! takes from the channel
Received(c) == Head(c)

Remaining(c) == Tail(c)

\* RecvReady answering only between two poll cycles
RecvReadyBetweenPolls == chan # <<>> /\ poll.pc = "sleep"

\* rx.recv() has an event to hand over
RecvReady == chan # <<>>

Recv ==
    /\ pc = "recv"
    /\ RecvReady
    /\ LET r == handle_action(app, Received(chan))
       IN  /\ Len(r.app.input_buffer) <= MaxBuf
           /\ app' = r.app
           /\ IF r.quit
              THEN pc' = "exit_ok" /\ term' = "restored"
              ELSE pc' = "render" /\ term' = term
    /\ chan' = Remaining(chan)
    /\ UNCHANGED <<todo, classVars, pollVars>>

MainLoop ==
    \/ Render
    \/ RenderFail
    \/ AttachRelease
    \/ AttachReturn
    \/ CommandCall
    \/ CommandReturn
    \/ Recv

(***************************************************************************)
(* The producer tasks (src/main.rs:32-63). They run until the process      *)
(* exits and only ever send on the channel.                                *)
(***************************************************************************)
Running == pc \notin {"exit_ok", "exit_err"}

Send(c, action) == Append(c, action)

InputReader(keys, cap) ==
    /\ Running
    /\ Len(chan) < cap
    /\ \E k \in keys : chan' = Send(chan, KeyPress(k))
    /\ UNCHANGED <<app, pc, todo, term, classVars, pollVars>>

\* one poll cycle: list_sessions answers Ok(registry) or Err
SessionPoller(registries, cap) ==
    /\ Running
    /\ Len(chan) < cap
    /\ \/ \E r \in registries : chan' = Send(chan, SessionsUpdated(r))
       \/ chan' = Send(chan, ErrorAction(PollError))
    /\ UNCHANGED <<app, pc, todo, term, classVars, pollVars>>

DashInit ==
    /\ app = AppNew
    /\ chan = <<>>
    /\ pc = "render"
    /\ todo = <<>>
    /\ term = "tui"

ClassIdle ==
    /\ prefix = <<>>
    /\ snapshot = <<>>
    /\ status = "Pending"

\* the poller task is about to call list_sessions for the first time
PollStart == [pc |-> "list", lines |-> <<>>, acc |-> <<>>, result |-> None]

PollIdle ==
    /\ poll = PollStart
    /\ mux = "up"

Init == DashInit /\ ClassIdle /\ PollIdle

Next ==
    \/ MainLoop
    \/ InputReader(Keys, 1)
    \/ SessionPoller(Registries, 1)

Spec == Init /\ [][Next]_vars

NextBus ==
    \/ MainLoop
    \/ InputReader(BusKeys, MaxChan)
    \/ SessionPoller(BusRegistries, MaxChan)

SpecBus == Init /\ [][NextBus]_vars

(***************************************************************************)
(* The status classifier (src/tmux/heuristics.rs).                         *)
(*                                                                         *)
(* Pane text is a sequence of atoms. An atom is one character that the     *)
(* patterns treat specially (">", "$", "?", ".", " ", the tab, the         *)
(* newline "\n") or a run of other characters taken as a whole: a literal  *)
(* of one of the patterns ("Error:", "panic", "Loading", "claude>",        *)
(* "[y/n]", ...) or "x" for text that is no literal. "{spinner}" is one of *)
(* the braille glyphs of RE_BUSY and "{arrow}" the arrow glyph of RE_IDLE. *)
(***************************************************************************)
WINDOW == 20

NL == "\n"

\* the class \s of the regex crate, on atoms
IsSpace(a) == a \in {" ", "\t", NL}

\* case folding of the (?i) flag, on atoms
Lower(a) ==
    CASE a = "Error:" -> "error:"
      [] a = "ERROR:" -> "error:"
      [] a = "Exception" -> "exception"
      [] a = "FAILED" -> "failed"
      [] a = "Panic" -> "panic"
      [] a = "Loading" -> "loading"
      [] a = "Processing" -> "processing"
      [] a = "Working" -> "working"
      [] a = "Thinking" -> "thinking"
      [] a = "Type a message" -> "type a message"
      [] a = "Press Enter" -> "press enter"
      [] a = "(y/N)" -> "(y/n)"
      [] a = "(Y/n)" -> "(y/n)"
      [] a = "CLAUDE>" -> "claude>"
      [] OTHER -> a

\* str::lines(): the pieces between newlines; a final newline ends the last
\* line and opens no empty one
RECURSIVE LinesFrom(_, _, _)
LinesFrom(c, i, cur) ==
    IF i > Len(c) THEN (IF cur = <<>> THEN <<>> ELSE <<cur>>)
    ELSE IF c[i] = NL
        THEN IF i = Len(c) THEN <<cur>> ELSE <<cur>> \o LinesFrom(c, i + 1, <<>>)
    ELSE LinesFrom(c, i + 1, Append(cur, c[i]))

lines(c) == LinesFrom(c, 1, <<>>)

\* RecentLines counting only the lines that are not empty
RecentLinesSkippingBlank(ls) ==
    LET full == SelectSeq(ls, LAMBDA l : l # <<>>)
    IN  IF Len(full) <= WINDOW THEN full
        ELSE SubSeq(full, Len(full) - WINDOW + 1, Len(full))

\* RecentLines with a window one line too long
RecentLinesOneMore(ls) ==
    IF Len(ls) <= WINDOW + 1 THEN ls ELSE SubSeq(ls, Len(ls) - WINDOW, Len(ls))

\* .rev().take(20) ... .rev(): the last 20 lines in their order
RecentLines(ls) ==
    IF Len(ls) <= WINDOW THEN ls ELSE SubSeq(ls, Len(ls) - WINDOW + 1, Len(ls))

\* .join("\n")
RECURSIVE Join(_)
Join(ls) ==
    IF ls = <<>> THEN <<>>
    ELSE IF Len(ls) = 1 THEN ls[1]
    ELSE ls[1] \o <<NL>> \o Join(Tail(ls))

recent_content(c) == Join(RecentLines(lines(c)))

\* ^\s* matched so that it ends after position i of b
RECURSIVE StartThenSpaces(_, _)
StartThenSpaces(b, i) ==
    \/ i = 0
    \/ b[i] = NL
    \/ IsSpace(b[i]) /\ StartThenSpaces(b, i - 1)

\* \s*$ matched from position i of b
RECURSIVE SpacesThenEnd(_, _)
SpacesThenEnd(b, i) ==
    \/ i > Len(b)
    \/ b[i] = NL
    \/ IsSpace(b[i]) /\ SpacesThenEnd(b, i + 1)

\* ^ before position i, $ after position i (multi-line mode)
AtLineStart(b, i) == i = 1 \/ b[i - 1] = NL
AtLineEnd(b, i) == i = Len(b) \/ b[i + 1] = NL

\* the three dots \.\.\. (or \.{3}) at positions i, i+1, i+2
Dots(b, i) == i + 2 <= Len(b) /\ b[i] = "." /\ b[i + 1] = "." /\ b[i + 2] = "."

\* (?mi)(^Error:|^error:|Exception|FAILED|panic|fatal|crash)
RE_ERROR(b) ==
    \E i \in 1..Len(b) :
        \/ Lower(b[i]) = "error:" /\ AtLineStart(b, i)
        \/ Lower(b[i]) \in {"exception", "failed", "panic", "fatal", "crash"}

\* RE_WAITING_INPUT without its first alternative, the bare > prompt
RE_WAITING_INPUT_NoPrompt(b) ==
    \E i \in 1..Len(b) :
        \/ Lower(b[i]) \in {"type a message", "press enter", "waiting for input",
                            "[y/n]", "(y/n)"}
        \/ b[i] = "?" /\ i + 1 <= Len(b) /\ b[i + 1] = " " /\ AtLineEnd(b, i + 1)

\* (?mi)(^\s*>\s*$|Type a message|Press Enter|waiting for input|\? $|\[y/n\]|\(y/N\)|\(Y/n\))
RE_WAITING_INPUT(b) ==
    \E i \in 1..Len(b) :
        \/ b[i] = ">" /\ StartThenSpaces(b, i - 1) /\ SpacesThenEnd(b, i + 1)
        \/ Lower(b[i]) \in {"type a message", "press enter", "waiting for input",
                            "[y/n]", "(y/n)"}
        \/ b[i] = "?" /\ i + 1 <= Len(b) /\ b[i + 1] = " " /\ AtLineEnd(b, i + 1)

\* (?mi)(Thinking\.{3}|Processing|Loading|Working|<ten spinner glyphs>|\.\.\.$)
RE_BUSY(b) ==
    \E i \in 1..Len(b) :
        \/ Lower(b[i]) = "thinking" /\ Dots(b, i + 1)
        \/ Lower(b[i]) \in {"processing", "loading", "working", "{spinner}"}
        \/ Dots(b, i) /\ AtLineEnd(b, i + 2)

\* (?m)(^\$\s*$|^<arrow>\s*$|^>\s*$|claude>)
RE_IDLE(b) ==
    \E i \in 1..Len(b) :
        \/ b[i] \in {"$", "{arrow}", ">"} /\ AtLineStart(b, i) /\ SpacesThenEnd(b, i + 1)
        \/ b[i] = "claude>"

\* Verdict trying the Idle pattern before the Busy one
VerdictIdleFirst(err, waiting, busy, idle) ==
    IF err THEN "Error"
    ELSE IF waiting THEN "WaitingForInput"
    ELSE IF idle THEN "Idle"
    ELSE IF busy THEN "Busy"
    ELSE "Unknown"

\* the order in which analyze tries the patterns
Verdict(err, waiting, busy, idle) ==
    IF err THEN "Error"
    ELSE IF waiting THEN "WaitingForInput"
    ELSE IF busy THEN "Busy"
    ELSE IF idle THEN "Idle"
    ELSE "Unknown"

analyze(content) ==
    LET b == recent_content(content)
    IN  Verdict(RE_ERROR(b), RE_WAITING_INPUT(b), RE_BUSY(b), RE_IDLE(b))

(***************************************************************************)
(* The panes the classifier is run on: up to MaxTail lines of output,      *)
(* under a run of blank lines, with or without a final newline, and up to  *)
(* MaxPrefix lines put in front.                                           *)
(***************************************************************************)
MaxTail == 2

PaneLines ==
    { <<>>,                         \* blank
      <<"x", "?">>,                 \* text ending in a question mark
      <<"x", "?", " ">>,            \* a question mark and a space at the end
      <<"Error:">>,                 \* Error: at the start of a line
      <<"x", "Panic">>,             \* an Error literal inside a line
      <<" ", ">", " ">>,            \* a bare > prompt, indented
      <<">">>,                      \* a bare > prompt
      <<"Loading">>,                \* a progress word
      <<"x", ".", ".", ".">>,       \* a line ending in an ellipsis
      <<"$", " ">>,                 \* a shell prompt
      <<"x", "claude>">> }          \* the application prompt inside a line

SeqsUpTo(S, n) == UNION {[1..k -> S] : k \in 0..n}

Blank(n) == [i \in 1..n |-> <<>>]

\* a line followed by its newline, for each line
RECURSIVE Terminated(_)
Terminated(ls) ==
    IF ls = <<>> THEN <<>> ELSE ls[1] \o <<NL>> \o Terminated(Tail(ls))

FillCounts == {0} \cup ((WINDOW - 2)..MaxFill)

SnapshotInputs ==
    { IF nl THEN Terminated(Blank(n) \o t) ELSE Join(Blank(n) \o t) :
        n \in FillCounts, t \in SeqsUpTo(PaneLines, MaxTail), nl \in BOOLEAN }

PrefixInputs == {<<>>} \cup {<<l>> : l \in PaneLines}

\* the prefix lines followed by the snapshot
Content == Terminated(prefix) \o snapshot

ClassInit ==
    /\ prefix \in PrefixInputs
    /\ snapshot \in SnapshotInputs
    /\ status = "Pending"

Analyze ==
    /\ status = "Pending"
    /\ status' = analyze(Content)
    /\ UNCHANGED <<prefix, snapshot, dashVars, pollVars>>

InitClassify == DashInit /\ ClassInit /\ PollIdle

NextClassify == Analyze

SpecClassify == InitClassify /\ [][NextClassify]_vars

(***************************************************************************)
(* The poller task step by step (src/main.rs:49-63 and list_sessions,      *)
(* parse_session_line, get_session_status of src/tmux/client.rs).          *)
(*                                                                         *)
(* poll.pc: "list"   about to run `tmux list-sessions` (client.rs:36-44)   *)
(*          "parse"  in the for loop of client.rs:57-61, poll.lines left   *)
(*          "send"   list_sessions has returned poll.result (main.rs:53)   *)
(*          "sleep"  in the sleep of main.rs:61                            *)
(* The output of a process is a record: kind "spawn_failed" when output()  *)
(* returned Err, else kind "exit" with success, stdout and stderr. Text of *)
(* stderr is a sequence of atoms, as pane text is.                         *)
(***************************************************************************)
Ok(v) == [ok |-> TRUE, val |-> v]
Err(e) == [ok |-> FALSE, val |-> e]

SpawnFailed == [kind |-> "spawn_failed", success |-> FALSE, stdout |-> <<>>, stderr |-> <<>>]
Exited(success, stdout, stderr) ==
    [kind |-> "exit", success |-> success, stdout |-> stdout, stderr |-> stderr]

\* str::contains on atoms: the literal is one of the atoms of the text
contains(text, literal) == \E i \in 1..Len(text) : text[i] = literal

\* A line of the listing is a sequence of atoms: the separator "|", the
\* digits, "+" and "-" one character each, and runs of other text.
\* str::split('|'): the pieces between separators, empty ones included
RECURSIVE SplitFrom(_, _, _)
SplitFrom(l, i, cur) ==
    IF i > Len(l) THEN <<cur>>
    ELSE IF l[i] = "|" THEN <<cur>> \o SplitFrom(l, i + 1, <<>>)
    ELSE SplitFrom(l, i + 1, Append(cur, l[i]))

split(l) == SplitFrom(l, 1, <<>>)

Digits == <<"0", "1", "2", "3", "4", "5", "6", "7", "8", "9">>

IsDigit(a) == \E d \in 1..Len(Digits) : Digits[d] = a

DigitValue(a) == (CHOOSE d \in 1..Len(Digits) : Digits[d] = a) - 1

RECURSIVE Value(_)
Value(ds) == IF ds = <<>> THEN 0 ELSE Value(SubSeq(ds, 1, Len(ds) - 1)) * 10 + DigitValue(ds[Len(ds)])

\* str::parse::<u64>() and ::<usize>(): an optional "+", then one or more
\* digits and nothing else (the fields of the model are too short to overflow)
parse(f) ==
    LET ds == IF f # <<>> /\ f[1] = "+" THEN Tail(f) ELSE f
    IN  IF ds = <<>> \/ \E i \in 1..Len(ds) : ~IsDigit(ds[i])
        THEN [ok |-> FALSE, val |-> "ParseIntError"]
        ELSE [ok |-> TRUE, val |-> Value(ds)]

\* the line tmux prints for session i under the format of client.rs:40
ListLine(i) == <<"$", Digits[i + 1], "|", "name", "|", "1", "7", "|", "1">>
ShortLine == <<"$", "9", "|", "name", "|", "1", "7">>

\* a TmuxSession built by parse_session_line (the name is left out)
Polled(id, created_at, attached_clients, st) ==
    [id |-> id, created_at |-> created_at, attached_clients |-> attached_clients,
     status |-> st]

Listings == {<<>>, <<ListLine(0), ListLine(1)>>, <<ShortLine, ListLine(0)>>}

\* what stderr can hold when list-sessions exits non-zero
Diagnostics ==
    { <<"no server running", " on /tmp/tmux-0/default">>,
      <<"no sessions">>,
      <<"protocol version mismatch">> }

\* further diagnostics, for list_exit taken alone
MoreDiagnostics ==
    Diagnostics \cup
    { <<>>,
      <<"No server running">>,
      <<"error connecting to /tmp/tmux-0/default", " (", "no server running", ")">> }

\* what `tmux list-sessions` can answer, by the state of the multiplexer
ListOutputs(m) ==
    IF m = "up"
    THEN {Exited(TRUE, l, <<>>) : l \in Listings}
    ELSE {SpawnFailed} \cup {Exited(FALSE, <<>>, d) : d \in Diagnostics}

\* what `tmux capture-pane` can answer
CaptureOutputs == {SpawnFailed, Exited(FALSE, <<>>, <<"x">>), Exited(TRUE, <<"$", " ">>, <<>>)}

\* list_exit treating every non-zero exit as an error
list_exit_strict(o) ==
    IF o.kind = "spawn_failed"
        THEN Some(Err(Msg("Failed to execute tmux list-sessions", <<>>)))
    ELSE IF ~o.success
        THEN Some(Err(Msg("tmux list-sessions failed: {}", o.stderr)))
    ELSE None

\* list_sessions up to its for loop (client.rs:36-52): the Result it
\* returns early, or None when it goes on to parse stdout
list_exit(o) ==
    IF o.kind = "spawn_failed"
        THEN Some(Err(Msg("Failed to execute tmux list-sessions", <<>>)))
    ELSE IF ~o.success
        THEN IF contains(o.stderr, "no server running") \/ contains(o.stderr, "no sessions")
             THEN Some(Ok(<<>>))
             ELSE Some(Err(Msg("tmux list-sessions failed: {}", o.stderr)))
    ELSE None

\* get_session_status (client.rs:90-103)
get_session_status(c) ==
    IF c.kind = "spawn_failed" THEN Err(Msg("Failed to capture pane", <<>>))
    ELSE IF ~c.success THEN Ok("Unknown")
    ELSE Ok(analyze(c.stdout))

unwrap_or(r, default) == IF r.ok THEN r.val ELSE default

\* parse_session_line letting a failed capture drop the session
parse_session_line_dropping(line, c) ==
    LET parts == split(line)
    IN  IF Len(parts) < 4 THEN None
        ELSE IF ~get_session_status(c).ok THEN None
        ELSE Some(Polled(parts[1], unwrap_or(parse(parts[3]), 0),
                         unwrap_or(parse(parts[4]), 0), get_session_status(c).val))

\* parse_session_line letting a number that does not parse drop the session
parse_session_line_strict(line, c) ==
    LET parts == split(line)
    IN  IF Len(parts) < 4 THEN None
        ELSE IF ~parse(parts[3]).ok \/ ~parse(parts[4]).ok THEN None
        ELSE Some(Polled(parts[1], parse(parts[3]).val, parse(parts[4]).val,
                         unwrap_or(get_session_status(c), "Unknown")))

\* parse_session_line (client.rs:66-87), given what capture-pane answers
parse_session_line(line, c) ==
    LET parts == split(line)
    IN  IF Len(parts) < 4 THEN None
        ELSE Some(Polled(parts[1], unwrap_or(parse(parts[3]), 0),
                         unwrap_or(parse(parts[4]), 0),
                         unwrap_or(get_session_status(c), "Unknown")))

\* lines a listing can hold besides the well-formed ones: a number that does
\* not parse, an empty number, signs, too few fields, no field, a fifth
\* field, a blank or a letter next to the digits
ParseLines ==
    { ListLine(0),
      <<"$", "1", "|", "name", "|", "x", "|", "1">>,
      <<"$", "2", "|", "name", "|", "1", "7", "|">>,
      <<"$", "3", "|", "name", "|", "-", "1", "|", "+", "2">>,
      ShortLine,
      <<>>,
      <<"$", "4", "|", "name", "|", "1", "7", "|", "1", "|", "extra">>,
      <<"$", "5", "|", "name", "|", "1", " ", "|", "2", "x">> }

MaxListed == 2

ParseListings == [1..MaxListed -> ParseLines]

KnownLines == ParseLines \cup {ListLine(1)}

\* parse_session_line on every line and capture output of the model,
\* computed once
ParsedLines ==
    [c \in CaptureOutputs |-> [l \in KnownLines |-> parse_session_line(l, c)]]

\* the poller after `rest` is left to parse with `acc` built
PollAfter(rest, acc) ==
    IF rest = <<>>
    THEN [pc |-> "send", lines |-> <<>>, acc |-> <<>>, result |-> Some(Ok(acc))]
    ELSE [pc |-> "parse", lines |-> rest, acc |-> acc, result |-> None]

PollList ==
    /\ Running
    /\ poll.pc = "list"
    /\ \E o \in ListOutputs(mux) :
        poll' = IF list_exit(o) # None
                THEN [pc |-> "send", lines |-> <<>>, acc |-> <<>>, result |-> list_exit(o)]
                ELSE PollAfter(o.stdout, <<>>)
    /\ UNCHANGED <<dashVars, classVars, mux>>

PollParse ==
    /\ Running
    /\ poll.pc = "parse"
    /\ \E c \in CaptureOutputs :
        poll' = PollAfter(Tail(poll.lines),
                          poll.acc \o ParsedLines[c][Head(poll.lines)])
    /\ UNCHANGED <<dashVars, classVars, mux>>

\* the event of main.rs:53-60 for what list_sessions returned
PollEvent(r) ==
    IF r.ok THEN SessionsUpdated(r.val) ELSE ErrorAction(Msg("Tmux: {}", r.val))

\* the model holds at most one event of the poller on the bus
PollSlotFree == \A i \in 1..Len(chan) : chan[i].type = "KeyPress"

\* PollSend ending the task after an Err
PollSendStopOnError ==
    /\ Running
    /\ poll.pc = "send"
    /\ PollSlotFree
    /\ chan' = Send(chan, PollEvent(poll.result[1]))
    /\ poll' = [PollStart EXCEPT !.pc = IF poll.result[1].ok THEN "sleep" ELSE "stopped"]
    /\ UNCHANGED <<app, pc, todo, term, classVars, mux>>

PollSend ==
    /\ Running
    /\ poll.pc = "send"
    /\ PollSlotFree
    /\ chan' = Send(chan, PollEvent(poll.result[1]))
    /\ poll' = [PollStart EXCEPT !.pc = "sleep"]
    /\ UNCHANGED <<app, pc, todo, term, classVars, mux>>

\* the interval of main.rs:61 has elapsed
PollSleep ==
    /\ Running
    /\ poll.pc = "sleep"
    /\ poll' = PollStart
    /\ UNCHANGED <<dashVars, classVars, mux>>

\* the multiplexer goes away or comes back
MuxChange ==
    /\ Running
    /\ mux' = IF mux = "up" THEN "down" ELSE "up"
    /\ UNCHANGED <<dashVars, classVars, poll>>

PollKeys == {Char("j"), Char("q")}

NextPoll ==
    \/ Render
    \/ RenderFail
    \/ Recv
    \/ InputReader(PollKeys, 1)
    \/ PollList
    \/ PollParse
    \/ PollSend
    \/ PollSleep
    \/ MuxChange

SpecPoll == Init /\ [][NextPoll]_vars

\* the loop and the poller task are both scheduled again and again
SpecPollFair ==
    /\ SpecPoll
    /\ WF_vars(Render) /\ WF_vars(Recv)
    /\ WF_vars(PollList) /\ WF_vars(PollParse) /\ WF_vars(PollSend) /\ WF_vars(PollSleep)

\* the loop is scheduled again and again; the poller may take for ever
SpecLoopFair == SpecPoll /\ WF_vars(Render) /\ WF_vars(Recv)

\* list_sessions parsing a listing it has just been given
InitParse ==
    /\ DashInit
    /\ ClassIdle
    /\ mux = "up"
    /\ poll \in {PollAfter(l, <<>>) : l \in ParseListings}

NextParse == PollParse

SpecParse == InitParse /\ [][NextParse]_vars

(***************************************************************************)
(* Steps of the main loop, as the properties below name them.              *)
(***************************************************************************)
\* this step takes an event of the given type from the channel and reduces it
Reduces(type) ==
    /\ pc = "recv"
    /\ pc' # "recv"
    /\ chan # <<>>
    /\ Head(chan).type = type

\* this step reduces a keypress while the App is in the given mode
ReducesKeyIn(mode) == Reduces("KeyPress") /\ app.input_mode = mode

TheKey == Head(chan).key

IsChar(k, cs) == k.code = "Char" /\ k.c \in cs

\* the commands that are queued or being executed
Commands(a, t) == {a.pending_actions[i] : i \in 1..Len(a.pending_actions)}
                      \cup {t[i] : i \in 1..Len(t)}

C2_FifoExactlyOnce ==
    [][\/ /\ chan' = chan
          /\ pc = "recv" => (pc' = "recv" /\ app' = app)
       \/ /\ Len(chan') = Len(chan) + 1
          /\ SubSeq(chan', 1, Len(chan)) = chan
          /\ chan'[Len(chan')].type \in {"KeyPress", "SessionsUpdated", "Error"}
          /\ UNCHANGED <<app, pc, todo, term>>
       \/ /\ pc = "recv"
          /\ chan # <<>>
          /\ chan' = Tail(chan)
          /\ app' = handle_action(app, Head(chan)).app
          /\ pc' = IF handle_action(app, Head(chan)).quit THEN "exit_ok" ELSE "render"]_vars

\* two events have queued up behind a running attach
C2_Witness ==
    /\ pc = "attaching"
    /\ Len(chan) >= 2
    /\ chan[1] # chan[2]

(***************************************************************************)
(* C3. An AttachSession command releases the terminal, then runs the       *)
(* attach, then takes the terminal back whether the attach succeeded or    *)
(* failed. While the terminal is released nothing is rendered, reduced or  *)
(* executed (only producers move), and the dashboard holds the terminal    *)
(* whenever it renders, reduces or runs another command.                   *)
(***************************************************************************)
loopVars == <<app, pc, todo, term>>

\* a step of the loop that starts on an AttachSession command
C3_Release ==
    (pc = "exec" /\ todo # <<>> /\ Head(todo).type = "AttachSession" /\ loopVars' # loopVars)
        => (term' = "released" /\ pc' = "attaching" /\ app' = app /\ todo' = todo)

\* a step of the loop while the terminal is released
C3_Reacquire ==
    (term = "released" /\ loopVars' # loopVars)
        => (/\ term' = "tui"
            /\ todo' = Tail(todo)
            /\ pc' \in {"exec", "recv"}
            /\ app'.sessions = app.sessions
            /\ app'.list_state = app.list_state
            /\ app'.input_mode = app.input_mode
            /\ app'.pending_actions = app.pending_actions)

C3_AttachHandoff ==
    /\ [](term = "released" <=> pc = "attaching")
    /\ [](pc \in {"render", "recv", "exec", "awaiting"} => term = "tui")
    /\ [][C3_Release /\ C3_Reacquire]_vars

\* a failed attach has returned and the dashboard holds the terminal again
C3_Witness ==
    /\ app.error_message = Some(Msg("Failed to attach: {}", <<"e">>))
    /\ term = "tui"
    /\ pc = "recv"
    /\ chan # <<>>

(***************************************************************************)
(* The markers of each class, read line by line from the pattern families  *)
(* of the classifier. These are the properties' own reading of "the window *)
(* contains a marker of class c"; analyze matches the joined block.        *)
(***************************************************************************)
Blanks(l, i, j) == \A k \in i..j : l[k] \in {" ", "\t"}

HasAtom(l, S) == \E i \in 1..Len(l) : Lower(l[i]) \in S

ErrorMarker(l) ==
    \/ l # <<>> /\ Lower(l[1]) = "error:"
    \/ HasAtom(l, {"exception", "failed", "panic", "fatal", "crash"})

WaitingMarker(l) ==
    \/ \E i \in 1..Len(l) : l[i] = ">" /\ Blanks(l, 1, i - 1) /\ Blanks(l, i + 1, Len(l))
    \/ HasAtom(l, {"type a message", "press enter", "waiting for input", "[y/n]", "(y/n)"})
    \/ Len(l) >= 2 /\ l[Len(l) - 1] = "?" /\ l[Len(l)] = " "

BusyMarker(l) ==
    \/ \E i \in 1..Len(l) : Lower(l[i]) = "thinking" /\ Dots(l, i + 1)
    \/ HasAtom(l, {"processing", "loading", "working", "{spinner}"})
    \/ Len(l) >= 3 /\ Dots(l, Len(l) - 2)

IdleMarker(l) ==
    \/ l # <<>> /\ l[1] \in {"$", "{arrow}", ">"} /\ Blanks(l, 2, Len(l))
    \/ \E i \in 1..Len(l) : l[i] = "claude>"

Marks(l, c) ==
    CASE c = "Error" -> ErrorMarker(l)
      [] c = "WaitingForInput" -> WaitingMarker(l)
      [] c = "Busy" -> BusyMarker(l)
      [] c = "Idle" -> IdleMarker(l)

Classes == {"Error", "WaitingForInput", "Busy", "Idle"}

Rank(c) ==
    CASE c = "Error" -> 4
      [] c = "WaitingForInput" -> 3
      [] c = "Busy" -> 2
      [] c = "Idle" -> 1
      [] c = "Unknown" -> 0

\* the last 20 lines of what was analyzed, and the classes marked in them
WindowLines == RecentLines(lines(Content))

Present ==
    LET w == WindowLines
    IN  {c \in Classes : \E i \in 1..Len(w) : Marks(w[i], c)}

(***************************************************************************)
(* C4. classify respects the priority Error > WaitingForInput > Busy >     *)
(* Idle > Unknown: the result is the highest class that has a marker in    *)
(* the last-20-line window, and Unknown exactly when none has.             *)
(***************************************************************************)
C4_PriorityOrder ==
    status # "Pending" =>
        LET marked == Present
        IN  /\ status = "Unknown" <=> marked = {}
            /\ marked # {} => (status \in marked /\ \A c \in marked : Rank(c) <= Rank(status))

\* an idle prompt together with a busy marker was classified Busy
C4_Witness ==
    /\ status = "Busy"
    /\ {"Busy", "Idle"} \subseteq Present

(***************************************************************************)
(* C5. classify depends only on the last 20 lines: for a snapshot of at    *)
(* least 20 lines, the result with any lines put in front of it is the     *)
(* result for the snapshot alone.                                          *)
(***************************************************************************)
C5_WindowBound ==
    (status # "Pending" /\ Len(lines(snapshot)) >= WINDOW) => status = analyze(snapshot)

\* a snapshot of 20 lines or more had an Error line put in front and was
\* not classified Error
C5_Witness ==
    /\ status \notin {"Pending", "Error"}
    /\ Len(lines(snapshot)) >= WINDOW
    /\ prefix # <<>>
    /\ ErrorMarker(prefix[1])

(***************************************************************************)
(* The properties' own reading of the reducer's vocabulary.                *)
(***************************************************************************)
\* the session under the cursor, if there is one
CursorSession(a) ==
    IF a.list_state # None /\ a.list_state[1] < Len(a.sessions)
    THEN Some(a.sessions[a.list_state[1] + 1])
    ELSE None

\* this step puts one more command at the end of the pending queue
Enqueues(type) ==
    /\ Len(app'.pending_actions) = Len(app.pending_actions) + 1
    /\ app'.pending_actions[Len(app'.pending_actions)].type = type

NameChars == Alphanumeric \cup {"-", "_"}

\* the App after `n` in a fresh App, and after typing characters into it
CreatingApp == handle_action(AppNew, KeyPress(Char("n"))).app

RECURSIVE TypeAll(_, _)
TypeAll(a, cs) ==
    IF cs = <<>> THEN a
    ELSE TypeAll(handle_action(a, KeyPress(Char(cs[1]))).app, Tail(cs))

(***************************************************************************)
(* C6. In Normal mode a `d` keypress with no session selected leaves the   *)
(* mode at Normal, with a session selected it switches to Confirming, and  *)
(* in both cases it enqueues nothing: a DeleteSession is only ever         *)
(* enqueued by `y` or `Y` reduced in Confirming mode.                      *)
(***************************************************************************)
C6_OnD ==
    (ReducesKeyIn("Normal") /\ IsChar(TheKey, {"d"}))
        => (/\ app'.pending_actions = app.pending_actions
            /\ app'.input_mode =
                   IF CursorSession(app) = None THEN "Normal" ELSE "Confirming")

C6_OnlyYesDeletes ==
    Enqueues("DeleteSession") => (ReducesKeyIn("Confirming") /\ IsChar(TheKey, {"y", "Y"}))

C6_ModalGating == [][C6_OnD /\ C6_OnlyYesDeletes]_vars

\* `d` was reduced with a session selected: Confirming, and nothing queued
C6_Witness ==
    /\ app.input_mode = "Confirming"
    /\ pc = "render"
    /\ app.pending_actions = <<>>
    /\ todo = <<>>

(***************************************************************************)
(* C7. In Confirming mode `y`/`Y` enqueues exactly one DeleteSession with  *)
(* the id of the session under the cursor, if there is one, and returns to *)
(* Normal; `n`/`N`/Escape return to Normal and change nothing else; every  *)
(* other key changes nothing at all.                                       *)
(***************************************************************************)
C7_OnKey ==
    ReducesKeyIn("Confirming") =>
        (/\ pc' = "render"
         /\ app' =
              IF IsChar(TheKey, {"y", "Y"})
              THEN [app EXCEPT !.input_mode = "Normal",
                               !.pending_actions =
                                   IF CursorSession(app) # None
                                   THEN Append(@, DeleteSession(CursorSession(app)[1].id))
                                   ELSE @]
              ELSE IF IsChar(TheKey, {"n", "N"}) \/ TheKey.code = "Esc"
              THEN [app EXCEPT !.input_mode = "Normal"]
              ELSE app)

C8_OnKey ==
    (ReducesKeyIn("Creating") /\ TheKey.code \in {"Enter", "Esc"})
        => (/\ pc' = "render"
            /\ app' = [app EXCEPT !.input_mode = "Normal",
                                  !.input_buffer = <<>>,
                                  !.pending_actions =
                                      IF TheKey.code = "Enter" /\ app.input_buffer # <<>>
                                      THEN Append(@, CreateSession(app.input_buffer))
                                      ELSE @])

C8_NoEmptyName ==
    \A c \in Commands(app, todo) : c.type = "CreateSession" => c.name # <<>>

C8_Creating == []C8_NoEmptyName /\ [][C8_OnKey]_vars

\* Enter was reduced with a non-empty buffer
C8_Witness ==
    /\ pc = "render"
    /\ app.input_mode = "Normal"
    /\ app.input_buffer = <<>>
    /\ \E c \in Commands(app, <<>>) : c.type = "CreateSession" /\ c.name # <<>>

(***************************************************************************)
(* C9. In Creating mode a character key appends its character to the       *)
(* buffer when it is alphanumeric, `-` or `_`, and changes nothing when it *)
(* is not; Backspace removes the last character. Typing "ab#c-1_2" yields  *)
(* "abc-1_2". Every CreateSession name queued or executed, and the buffer  *)
(* itself, consists of allowed characters only.                            *)
(***************************************************************************)
C9_OnKey ==
    /\ (ReducesKeyIn("Creating") /\ TheKey.code = "Char")
           => (/\ pc' = "render"
               /\ app' = IF TheKey.c \in NameChars
                         THEN [app EXCEPT !.input_buffer = Append(@, TheKey.c)]
                         ELSE app)
    /\ (ReducesKeyIn("Creating") /\ TheKey.code = "Backspace")
           => (/\ pc' = "render"
               /\ app' = [app EXCEPT !.input_buffer =
                              IF @ = <<>> THEN @ ELSE SubSeq(@, 1, Len(@) - 1)])

C9_Example ==
    /\ TypeAll(CreatingApp, <<"a", "b", "#", "c", "-", "1", "_", "2">>).input_buffer
           = <<"a", "b", "c", "-", "1", "_", "2">>
    /\ handle_action(TypeAll(CreatingApp, <<"a", "b">>),
                     KeyPress(Named("Backspace"))).app.input_buffer = <<"a">>

C9_OnlyAllowed ==
    /\ \A i \in 1..Len(app.input_buffer) : app.input_buffer[i] \in NameChars
    /\ \A c \in Commands(app, todo) :
           c.type = "CreateSession" => \A i \in 1..Len(c.name) : c.name[i] \in NameChars

C10_OnKey ==
    (ReducesKeyIn("Normal") /\ (IsChar(TheKey, {"j", "k"}) \/ TheKey.code \in {"Down", "Up"}))
        => LET n == Len(app.sessions)
               i == app.list_state[1]
               down == IsChar(TheKey, {"j"}) \/ TheKey.code = "Down"
           IN  /\ app'.sessions = app.sessions
               /\ app.list_state # None
               /\ n = 0 => app'.list_state = app.list_state
               /\ n > 0 => (/\ app'.list_state =
                                 Some(IF down THEN (IF i = n - 1 THEN 0 ELSE i + 1)
                                      ELSE (IF i = 0 THEN n - 1 ELSE i - 1))
                            /\ app'.list_state[1] < n)

C10_Wraparound == [][C10_OnKey]_vars

\* `j` is about to be reduced with the cursor on the last of several sessions
C10_Witness ==
    /\ pc = "recv"
    /\ app.input_mode = "Normal"
    /\ chan # <<>>
    /\ Head(chan) = KeyPress(Char("j"))
    /\ Len(app.sessions) >= 2
    /\ app.list_state = Some(Len(app.sessions) - 1)

(***************************************************************************)
(* C11. In Normal mode an Enter keypress enqueues exactly one              *)
(* AttachSession carrying the id of the session under the cursor when      *)
(* there is one, and nothing when there is none, which is exactly when the *)
(* registry is empty; the mode stays Normal, and the registry and the      *)
(* cursor are left alone.                                                  *)
(***************************************************************************)
C11_OnEnter ==
    (ReducesKeyIn("Normal") /\ TheKey.code = "Enter")
        => (/\ pc' = "render"
            /\ app'.input_mode = "Normal"
            /\ app'.sessions = app.sessions
            /\ app'.list_state = app.list_state
            /\ (CursorSession(app) = None) <=> (app.sessions = <<>>)
            /\ app'.pending_actions =
                   IF CursorSession(app) # None
                   THEN Append(app.pending_actions, AttachSession(CursorSession(app)[1].id))
                   ELSE app.pending_actions)

C11_EnterAttaches == [][C11_OnEnter]_vars

\* Enter was reduced with the cursor on the second session
C11_Witness ==
    /\ pc = "render"
    /\ app.input_mode = "Normal"
    /\ app.list_state = Some(1)
    /\ Len(app.sessions) >= 2
    /\ app.pending_actions = <<AttachSession(app.sessions[2].id)>>

(***************************************************************************)
(* C12. An Error(message) event sets the displayed message to that         *)
(* message and changes nothing else; after a keypress reduced in Normal    *)
(* mode no message is displayed; keypresses reduced in Creating or         *)
(* Confirming mode and SessionsUpdated events leave the message as it is;  *)
(* and a message only ever disappears by a keypress in Normal mode: every  *)
(* other change of it puts another message in its place.                   *)
(***************************************************************************)
C12_OnError ==
    Reduces("Error")
        => (/\ pc' = "render"
            /\ app' = [app EXCEPT !.error_message = Some(Head(chan).msg)])

C12_NormalKeyClears == ReducesKeyIn("Normal") => app'.error_message = None

C12_Persists ==
    (ReducesKeyIn("Creating") \/ ReducesKeyIn("Confirming") \/ Reduces("SessionsUpdated"))
        => app'.error_message = app.error_message

C12_ReplacedOrCleared ==
    (app'.error_message # app.error_message)
        => (app'.error_message # None \/ ReducesKeyIn("Normal"))

ReducesQuit ==
    \/ Reduces("Quit")
    \/ ReducesKeyIn("Normal") /\ (IsChar(TheKey, {"q"}) \/ TheKey = CtrlChar("c"))

\* the reducer answers a Quit action with "quit" whatever the mode
QuitAlwaysQuits == handle_action(app, Quit) = [app |-> app, quit |-> TRUE]

C13_SuccessIffQuit ==
    /\ (pc # "exit_ok" /\ pc' = "exit_ok") => (ReducesQuit /\ term' = "restored")
    /\ (ReducesQuit /\ pc' # pc) => pc' = "exit_ok"
    /\ (pc = "recv" /\ pc' # pc) => pc' \in {"render", "exit_ok"}
    /\ (pc \in {"exec", "attaching", "awaiting"}) => Running'

C13_FailureOnlyOnDraw ==
    (pc # "exit_err" /\ pc' = "exit_err") => (pc = "render" /\ UNCHANGED <<app, chan, todo, term>>)

PollerStep == poll' # poll

\* the sessions list_sessions has built when the poller is in state p
Built(p) == IF p.pc = "send" /\ p.result[1].ok THEN p.result[1].val ELSE p.acc

\* this step puts an event of the poller at the end of the bus
PollerSends ==
    /\ Len(chan') = Len(chan) + 1
    /\ chan'[Len(chan')].type # "KeyPress"

OnBus(type) == \E i \in 1..Len(chan) : chan[i].type = type

\* the number of fields of a line: one more than its separators
Fields(line) == Cardinality({i \in 1..Len(line) : line[i] = "|"}) + 1

\* the atoms of a line in front of its first separator
FirstField(line) ==
    LET seps == {i \in 1..Len(line) : line[i] = "|"}
        end == IF seps = {} THEN Len(line) + 1 ELSE CHOOSE i \in seps : \A j \in seps : i <= j
    IN  SubSeq(line, 1, end - 1)

\* the diagnostic names one of the two conditions that are no error
Benign(d) == \E i \in 1..Len(d) : d[i] \in {"no server running", "no sessions"}

(***************************************************************************)
(* C14. A failed list call makes the poller emit exactly one Error event   *)
(* for that cycle, carrying the failure, and then sleep and start another  *)
(* cycle: the poller sends only at the end of a cycle, one event per       *)
(* cycle. Under fairness the poller starts a cycle again and again, and    *)
(* once the multiplexer stays up a SessionsUpdated event is on the bus     *)
(* again and again (unless the loop has exited, which ends the process).   *)
(***************************************************************************)
C14_OneEventPerCycle ==
    /\ PollerSends
           => (/\ poll.pc = "send"
               /\ poll'.pc = "sleep"
               /\ chan' = Append(chan, chan'[Len(chan')])
               /\ chan'[Len(chan')] =
                      IF poll.result[1].ok
                      THEN [type |-> "SessionsUpdated", sessions |-> poll.result[1].val]
                      ELSE [type |-> "Error", msg |-> Msg("Tmux: {}", poll.result[1].val)])
    /\ (PollerStep /\ poll.pc = "send") => PollerSends
    /\ (PollerStep /\ poll.pc = "sleep") => poll'.pc = "list"
    /\ (PollerStep /\ poll.pc = "list") => poll'.pc \in {"parse", "send"}
    /\ (PollerStep /\ poll.pc = "parse") => poll'.pc \in {"parse", "send"}
    /\ poll'.pc \in {"list", "parse", "send", "sleep"}

C14_KeepsPolling == []<>(poll.pc = "list") \/ <>(~Running)

C14_Recovers == <>[](mux = "up") => ([]<>OnBus("SessionsUpdated") \/ <>(~Running))

C14_PollerSurvivesFailure ==
    /\ [][C14_OneEventPerCycle]_vars
    /\ C14_KeepsPolling
    /\ C14_Recovers

\* the Error of a failed poll is displayed and, the multiplexer being back,
\* the registry of a later cycle is on the bus
C14_Witness ==
    /\ app.error_message # None
    /\ app.error_message[1].text = "Tmux: {}"
    /\ mux = "up"
    /\ \E i \in 1..Len(chan) :
           chan[i].type = "SessionsUpdated" /\ chan[i].sessions # <<>>

(***************************************************************************)
(* C15. In a poll cycle a capture that fails (the command cannot be        *)
(* spawned, or exits non-zero) gives that session the status Unknown: the  *)
(* session is still appended to the registry being built, the sessions     *)
(* built before it are left as they are, and the cycle ends in a           *)
(* SessionsUpdated, never in an Error.                                     *)
(***************************************************************************)
C15_FailedCaptureIsUnknown ==
    \A c \in CaptureOutputs :
        (c.kind = "spawn_failed" \/ ~c.success)
            => (/\ parse_session_line(ListLine(1), c) # None
                /\ parse_session_line(ListLine(1), c)[1].id = <<"$", "1">>
                /\ parse_session_line(ListLine(1), c)[1].status = "Unknown")

C15_OnCapture ==
    (PollerStep /\ poll.pc = "parse")
        => (/\ poll'.pc \in {"parse", "send"}
            /\ poll'.pc = "send" => poll'.result[1].ok
            /\ LET line == Head(poll.lines)
               IN  IF Fields(line) >= 4
                   THEN /\ Len(Built(poll')) = Len(poll.acc) + 1
                        /\ SubSeq(Built(poll'), 1, Len(poll.acc)) = poll.acc
                        /\ Built(poll')[Len(poll.acc) + 1].id = FirstField(line)
                        /\ Built(poll')[Len(poll.acc) + 1].status \in {"Unknown", "Idle"}
                   ELSE Built(poll') = poll.acc)

C15_CaptureFailureDegrades == []C15_FailedCaptureIsUnknown /\ [][C15_OnCapture]_vars

\* a registry with one session Unknown and the other classified is on the bus
C15_Witness ==
    \E i \in 1..Len(chan) :
        /\ chan[i].type = "SessionsUpdated"
        /\ Len(chan[i].sessions) = 2
        /\ chan[i].sessions[1].status = "Idle"
        /\ chan[i].sessions[2].status = "Unknown"

(***************************************************************************)
(* C16. list_sessions answers a non-zero exit whose diagnostic contains    *)
(* "no server running" or "no sessions" with Ok and no sessions, so that   *)
(* the poller emits SessionsUpdated with an empty registry; every other    *)
(* non-zero exit it answers with an error that carries the diagnostic, and *)
(* no Error event on the bus carries one of the two benign diagnostics.    *)
(***************************************************************************)
C16_ListExit ==
    \A d \in MoreDiagnostics :
        list_exit(Exited(FALSE, <<>>, d)) =
            IF Benign(d)
            THEN Some([ok |-> TRUE, val |-> <<>>])
            ELSE Some([ok |-> FALSE, val |-> Msg("tmux list-sessions failed: {}", d)])

C16_NoBenignError ==
    \A i \in 1..Len(chan) : chan[i].type = "Error" => ~Benign(chan[i].msg.arg.arg)

C16_OnList ==
    (PollerStep /\ poll.pc = "list" /\ mux = "down")
        => (/\ poll'.pc = "send"
            /\ \/ poll'.result = Some([ok |-> TRUE, val |-> <<>>])
               \/ /\ ~poll'.result[1].ok
                  /\ ~Benign(poll'.result[1].val.arg))

C16_OnSend ==
    (PollerStep /\ poll.pc = "send" /\ poll.result = Some([ok |-> TRUE, val |-> <<>>]))
        => chan' = Append(chan, [type |-> "SessionsUpdated", sessions |-> <<>>])

C16_NoServerIsEmpty ==
    /\ [](C16_ListExit /\ C16_NoBenignError)
    /\ [][C16_OnList /\ C16_OnSend]_vars

\* with the multiplexer down and sessions still displayed, list_sessions
\* has answered Ok with no sessions
C16_Witness ==
    /\ mux = "down"
    /\ poll.pc = "send"
    /\ poll.result = Some([ok |-> TRUE, val |-> <<>>])
    /\ app.sessions # <<>>

(***************************************************************************)
(* C17. The pending queue is drained exactly once per iteration of the     *)
(* loop, before the iteration receives its event: the drain takes the      *)
(* whole queue in its order and leaves it empty, the drained commands are  *)
(* executed one after another from the front, and when the loop waits for  *)
(* an event nothing is queued or left to execute. (An iteration reduces    *)
(* one event, so a drain never finds more than one command.)               *)
(***************************************************************************)
C17_OnDrain ==
    /\ (pc = "render" /\ pc' \notin {"render", "exit_err"})
           => (/\ todo' = app.pending_actions
               /\ app'.pending_actions = <<>>
               /\ pc' = IF todo' = <<>> THEN "recv" ELSE "exec")
    /\ (todo' # todo)
           => \/ pc = "render"
              \/ pc \in {"exec", "attaching", "awaiting"} /\ todo' = Tail(todo)
    /\ (pc' = "render" /\ pc # "render") => pc = "recv"
    /\ (pc = "recv" /\ pc' # pc) => pc' \in {"render", "exit_ok"}
    /\ (pc \in {"exec", "attaching", "awaiting"}) => pc' \in {"exec", "attaching", "awaiting", "recv"}

C17_Drained ==
    /\ pc = "recv" => (todo = <<>> /\ app.pending_actions = <<>>)
    /\ pc \in {"exec", "attaching", "awaiting"} => (todo # <<>> /\ app.pending_actions = <<>>)
    /\ Len(app.pending_actions) + Len(todo) <= 1
    /\ LET q == <<CopySkeleton, CreateSession(<<"a">>), DeleteSession(0)>>
           t == take_pending_actions([app EXCEPT !.pending_actions = q])
       IN  t.taken = q /\ t.app.pending_actions = <<>>

C17_DrainOncePerIteration == []C17_Drained /\ [][C17_OnDrain]_vars

\* a drained command is about to be executed while an event waits on the bus
C17_Witness ==
    /\ pc = "exec"
    /\ todo # <<>>
    /\ app.pending_actions = <<>>
    /\ chan # <<>>

OutcomeMessages ==
    UNION {Outcomes(c) : c \in Commands(app, todo)} \cup {Msg("Failed to attach: {}", <<"e">>)}

C18_OnWrite ==
    /\ (app'.sessions # app.sessions \/ app'.input_mode # app.input_mode)
           => (pc = "recv" /\ chan # <<>> /\ app' = handle_action(app, Head(chan)).app)
    /\ (app'.error_message # app.error_message)
           => \/ pc = "recv" /\ chan # <<>> /\ app' = handle_action(app, Head(chan)).app
              \/ /\ pc \in {"attaching", "awaiting"}
                 /\ chan' = chan
                 /\ app'.error_message \in {Some(m) : m \in OutcomeMessages}
                 /\ app' = [app EXCEPT !.error_message = app'.error_message]
    /\ (Len(chan') > Len(chan)) => app' = app
    /\ (pc \in {"exec", "attaching", "awaiting"} /\ loopVars' # loopVars) => chan' = chan

C18_BusCarries ==
    \A i \in 1..Len(chan) :
        \/ chan[i].type \in {"KeyPress", "SessionsUpdated"}
        \/ chan[i].type = "Error" /\ chan[i].msg.text = "Tmux: {}"

LoopSuspended == pc \in {"attaching", "awaiting"}

GatewayCommands == {"CreateSession", "DeleteSession", "CopySkeleton"}

(***************************************************************************)
(* C19 (as stated). The foreground attach is the only operation that       *)
(* blocks the main loop: whenever the loop is suspended in a call, the     *)
(* call is an attach.                                                      *)
(***************************************************************************)
C19_OnlyAttachBlocks == LoopSuspended => Head(todo).type = "AttachSession"

(***************************************************************************)
(* C19 (amended). The loop is blocked during the foreground attach and     *)
(* also during every CreateSession, DeleteSession and CopySkeleton call,   *)
(* which it waits for in place: from the start of such a call until its    *)
(* return the loop makes no other step (it neither draws nor reduces),     *)
(* while the producers go on sending and their events queue on the bus.    *)
(* Only the attach gives up the terminal. The loop is suspended nowhere    *)
(* else.                                                                   *)
(***************************************************************************)
C19_Calls ==
    /\ pc = "attaching" => (todo # <<>> /\ Head(todo).type = "AttachSession" /\ term = "released")
    /\ pc = "awaiting" => (todo # <<>> /\ Head(todo).type \in GatewayCommands /\ term = "tui")

C19_OnCall ==
    /\ (pc = "exec" /\ loopVars' # loopVars /\ Head(todo).type \in GatewayCommands)
           => (pc' = "awaiting" /\ app' = app /\ todo' = todo /\ chan' = chan)
    /\ (LoopSuspended /\ loopVars' # loopVars)
           => (/\ todo' = Tail(todo)
               /\ pc' \in {"exec", "recv"}
               /\ chan' = chan
               /\ app'.sessions = app.sessions
               /\ app'.input_mode = app.input_mode)
    /\ (LoopSuspended /\ loopVars' = loopVars) => Len(chan') >= Len(chan)
    /\ (LoopSuspended' /\ ~LoopSuspended) => pc = "exec"

C19_BlockingPoints == []C19_Calls /\ [][C19_OnCall]_vars

\* an event has queued up while the loop waits for create_session
C19_Witness ==
    /\ pc = "awaiting"
    /\ Head(todo).type = "CreateSession"
    /\ chan # <<>>

(***************************************************************************)
(* C20. A poll cycle that takes arbitrarily long does not hold up the      *)
(* keys: with the loop scheduled fairly and no assumption that the poller  *)
(* ever makes a step, a keypress at the front of the bus is eventually     *)
(* taken off it, the loop receives again and again as long as the bus is   *)
(* not empty (unless it has exited), and reducing a keypress neither needs *)
(* nor changes the state of the poll cycle.                                *)
(***************************************************************************)
KeyAtFront == chan # <<>> /\ Head(chan).type = "KeyPress"

C20_OnKey ==
    Reduces("KeyPress")
        => (/\ poll' = poll
            /\ chan' = Tail(chan)
            /\ app' = handle_action(app, Head(chan)).app)

C20_KeysNotHeldUp ==
    /\ KeyAtFront ~> (~KeyAtFront \/ ~Running)
    /\ ([]<><<Recv>>_vars) \/ <>[](chan = <<>>) \/ <>(~Running)
    /\ <>[](poll.pc \in {"list", "parse"})
           => (<>[](~KeyAtFront) \/ ([]<><<Recv>>_vars) \/ <>(~Running))
    /\ [][C20_OnKey]_vars

\* a keypress is about to be reduced in the middle of a poll cycle
C20_Witness ==
    /\ poll.pc = "parse"
    /\ poll.acc # <<>>
    /\ pc = "recv"
    /\ KeyAtFront

(***************************************************************************)
(* The fields of a line and the number a field stands for, as C21 reads    *)
(* them.                                                                   *)
(***************************************************************************)
\* the atoms between the (n-1)th and the nth separator of a line
FieldAt(line, n) ==
    LET seps == {i \in 1..Len(line) : line[i] = "|"}
        before(i) == Cardinality({j \in seps : j < i})
    IN  [k \in 1..Cardinality({i \in 1..Len(line) : line[i] # "|" /\ before(i) = n - 1}) |->
            line[CHOOSE i \in 1..Len(line) :
                    /\ line[i] # "|"
                    /\ before(i) = n - 1
                    /\ Cardinality({j \in 1..i : line[j] # "|" /\ before(j) = n - 1}) = k]]

\* the numbers among the fields of the model; every other field is no number
NumberOf(f) ==
    CASE f = <<"1", "7">> -> 17
      [] f = <<"1">> -> 1
      [] f = <<"+", "2">> -> 2
      [] OTHER -> 0

(***************************************************************************)
(* C21. Parsing the list output, a line with fewer than 4 fields is        *)
(* dropped and the call goes on: the records built so far stay, in order,  *)
(* and the call returns Ok. A line with 4 fields or more gives one record, *)
(* appended at the end, with the line's first field as id; a created_at or *)
(* attached_clients field that is no number becomes 0 and the record is    *)
(* kept.                                                                   *)
(***************************************************************************)
C21_OnLine ==
    (PollerStep /\ poll.pc = "parse")
        => (/\ poll'.pc \in {"parse", "send"}
            /\ poll'.pc = "parse" => poll'.lines = Tail(poll.lines)
            /\ poll'.pc = "send" => (Tail(poll.lines) = <<>> /\ poll'.result[1].ok)
            /\ LET line == Head(poll.lines)
                   n == Len(poll.acc)
               IN  IF Fields(line) < 4
                   THEN Built(poll') = poll.acc
                   ELSE /\ Len(Built(poll')) = n + 1
                        /\ SubSeq(Built(poll'), 1, n) = poll.acc
                        /\ Built(poll')[n + 1].id = FieldAt(line, 1)
                        /\ Built(poll')[n + 1].created_at = NumberOf(FieldAt(line, 3))
                        /\ Built(poll')[n + 1].attached_clients = NumberOf(FieldAt(line, 4)))

C21_ParseTolerant == [][C21_OnLine]_vars

\* a listing has been parsed to the end: a line was dropped, and the record
\* that is left has 0 for a created_at that was no number
C21_Witness ==
    /\ poll.pc = "send"
    /\ poll.result[1].ok
    /\ Len(poll.result[1].val) = 1
    /\ poll.result[1].val[1].created_at = 0
    /\ poll.result[1].val[1].attached_clients = 2

(***************************************************************************)
(* C22. A SessionsUpdated(r) event makes the registry r, as it is and in   *)
(* its order, and apart from the cursor changes no other field of the App  *)
(* (mode, buffer, message, display mode, pending queue), in every mode.    *)
(***************************************************************************)
C22_OnUpdate ==
    Reduces("SessionsUpdated")
        => (/\ pc' = "render"
            /\ app'.sessions = Head(chan).sessions
            /\ app' = [app EXCEPT !.sessions = Head(chan).sessions,
                                  !.list_state = app'.list_state])

C22_WholesaleReplace == [][C22_OnUpdate]_vars

\* an empty registry is about to replace a non-empty one while a name is
\* being typed under a displayed message
C22_Witness ==
    /\ pc = "recv"
    /\ app.input_mode = "Creating"
    /\ app.input_buffer # <<>>
    /\ app.error_message # None
    /\ app.sessions # <<>>
    /\ chan # <<>>
    /\ Head(chan) = [type |-> "SessionsUpdated", sessions |-> <<>>]

(***************************************************************************)
(* The App after a sequence of events, from the reducer alone.             *)
(***************************************************************************)
RECURSIVE ReduceAll(_, _)
ReduceAll(a, events) ==
    IF events = <<>> THEN a
    ELSE ReduceAll(handle_action(a, events[1]).app, Tail(events))

(***************************************************************************)
(* C23. The selection is an index, not a session: a SessionsUpdated event  *)
(* leaves the cursor where it is whenever it is still in range, whatever   *)
(* session is now at that index, and `y` in Confirming mode enqueues       *)
(* DeleteSession for the session at the cursor at that moment. With        *)
(* sessions 0, 1 listed and the cursor on 0, `d`, then a poll listing      *)
(* 1, 0, then `y` deletes session 1.                                       *)
(***************************************************************************)
C23_IndexKept ==
    (Reduces("SessionsUpdated") /\ app.list_state # None
        /\ app.list_state[1] < Len(Head(chan).sessions))
        => app'.list_state = app.list_state

C23_DeletesAtCursor ==
    (ReducesKeyIn("Confirming") /\ IsChar(TheKey, {"y", "Y"}) /\ CursorSession(app) # None)
        => app'.pending_actions =
               <<[type |-> "DeleteSession", id |-> app.sessions[app.list_state[1] + 1].id]>>

C23_Example ==
    LET listed == <<[id |-> 0], [id |-> 1]>>
        swapped == <<[id |-> 1], [id |-> 0]>>
        asked == ReduceAll(AppNew, <<SessionsUpdated(listed), KeyPress(Char("d"))>>)
        answered == ReduceAll(asked, <<SessionsUpdated(swapped), KeyPress(Char("y"))>>)
    IN  /\ asked.input_mode = "Confirming"
        /\ CursorSession(asked) = Some([id |-> 0])
        /\ answered.pending_actions = <<[type |-> "DeleteSession", id |-> 1]>>

C23_SelectionByIndex == []C23_Example /\ [][C23_IndexKept /\ C23_DeletesAtCursor]_vars

\* in Confirming mode, a registry with another session at the cursor is
\* about to be reduced
C23_Witness ==
    /\ pc = "recv"
    /\ app.input_mode = "Confirming"
    /\ chan # <<>>
    /\ Head(chan).type = "SessionsUpdated"
    /\ CursorSession(app) # None
    /\ app.list_state[1] < Len(Head(chan).sessions)
    /\ Head(chan).sessions[app.list_state[1] + 1].id # CursorSession(app)[1].id

(***************************************************************************)
(* C25. In every reachable state the cursor is set, and if the registry is *)
(* not empty the cursor is a valid index of it: a session is selected      *)
(* exactly when the registry is not empty.                                 *)
(***************************************************************************)
C25_SelectionValid ==
    /\ app.list_state # None
    /\ app.sessions # <<>> => app.list_state[1] < Len(app.sessions)
    /\ (CursorSession(app) # None) <=> (app.sessions # <<>>)

\* a non-empty registry is about to be reduced with the cursor left past 0
\* over an empty registry
C25_Witness ==
    /\ pc = "recv"
    /\ app.sessions = <<>>
    /\ app.list_state # None
    /\ app.list_state[1] > 0
    /\ chan # <<>>
    /\ Head(chan).type = "SessionsUpdated"
    /\ Head(chan).sessions # <<>>

(***************************************************************************)
(* C26. At most one command is queued or left to execute at any time: an   *)
(* event is only reduced with the queue empty and nothing left to execute, *)
(* reducing it enqueues at most one command, and a queued command is       *)
(* drained and executed before the loop receives again.                    *)
(***************************************************************************)
C26_AtMostOne ==
    /\ Len(app.pending_actions) + Len(todo) <= 1
    /\ app.pending_actions # <<>> => pc \in {"render", "exit_ok", "exit_err"}
    /\ todo # <<>> => pc \in {"exec", "attaching", "awaiting"}

C26_OnReduce ==
    (pc = "recv" /\ pc' # pc)
        => (/\ app.pending_actions = <<>>
            /\ todo = <<>>
            /\ Len(app'.pending_actions) <= 1)

C26_OneCommandAtATime == []C26_AtMostOne /\ [][C26_OnReduce]_vars

\* a command is queued and the next event is already on the bus
C26_Witness ==
    /\ pc = "render"
    /\ Len(app.pending_actions) = 1
    /\ chan # <<>>

(***************************************************************************)
(* C27. The input buffer is empty whenever the mode is not Creating. The   *)
(* mode changes from Normal to Creating only by `n`, from Normal to        *)
(* Confirming only by `d` with a session selected, and from Creating or    *)
(* Confirming only to Normal.                                              *)
(***************************************************************************)
C27_BufferOnlyInCreating == app.input_mode # "Creating" => app.input_buffer = <<>>

C27_OnModeChange ==
    /\ (app.input_mode = "Normal" /\ app'.input_mode = "Creating")
           => (ReducesKeyIn("Normal") /\ IsChar(TheKey, {"n"}))
    /\ (app.input_mode = "Normal" /\ app'.input_mode = "Confirming")
           => (ReducesKeyIn("Normal") /\ IsChar(TheKey, {"d"}) /\ CursorSession(app) # None)
    /\ (app.input_mode # "Normal" /\ app'.input_mode # app.input_mode)
           => (app'.input_mode = "Normal" /\ Reduces("KeyPress"))
    /\ app'.input_mode \in {"Normal", "Creating", "Confirming"}

C27_Modes == []C27_BufferOnlyInCreating /\ [][C27_OnModeChange]_vars

\* Escape is about to be reduced in Creating mode with text in the buffer
C27_Witness ==
    /\ pc = "recv"
    /\ app.input_mode = "Creating"
    /\ app.input_buffer # <<>>
    /\ chan # <<>>
    /\ Head(chan) = KeyPress(Named("Esc"))

(***************************************************************************)
(* The quit keys in the other modes, as C28 reads them.                    *)
(***************************************************************************)
IsQuitKey(k) == k.code = "Char" /\ ((k.c = "q" /\ ~k.ctrl) \/ (k.c = "c" /\ k.ctrl))

C28_OnQuitKey ==
    /\ (ReducesKeyIn("Creating") /\ IsQuitKey(TheKey))
           => (/\ pc' = "render"
               /\ app' = [app EXCEPT !.input_buffer = Append(@, TheKey.c)])
    /\ (ReducesKeyIn("Confirming") /\ IsQuitKey(TheKey))
           => (pc' = "render" /\ app' = app)

C24_QuestionMarkWaits ==
    (/\ status # "Pending"
     /\ "Error" \notin Present
     /\ Content # <<>>
     /\ Content[Len(Content)] = "?")
        => status = "WaitingForInput"

\* what the pattern \? $ does decide: a question mark and one space at the
\* end of a line of the window
C24_QuestionMarkSpaceWaits ==
    (/\ status # "Pending"
     /\ "Error" \notin Present
     /\ \E i \in 1..Len(WindowLines) :
            LET l == WindowLines[i]
            IN  Len(l) >= 2 /\ l[Len(l) - 1] = "?" /\ l[Len(l)] = " ")
        => status = "WaitingForInput"

(***************************************************************************)
(* The lines that are a bare > prompt, and RE_IDLE without its `^>\s*$`    *)
(* alternative.                                                            *)
(***************************************************************************)
BarePrompt(l) ==
    \E i \in 1..Len(l) : l[i] = ">" /\ Blanks(l, 1, i - 1) /\ Blanks(l, i + 1, Len(l))

IdleWithoutBarePrompt(b) ==
    \E i \in 1..Len(b) :
        \/ b[i] \in {"$", "{arrow}"} /\ AtLineStart(b, i) /\ SpacesThenEnd(b, i + 1)
        \/ b[i] = "claude>"

(***************************************************************************)
(* C29. A window with a line that is only `>`, with or without whitespace  *)
(* around it, is classified WaitingForInput, or Error when the window has  *)
(* an Error marker, and never Idle; and no verdict depends on the bare `>` *)
(* alternative of the Idle pattern: without it every pane is classified    *)
(* the same.                                                               *)
(***************************************************************************)
C29_BarePromptWaits ==
    status # "Pending" =>
        LET w == WindowLines
            b == recent_content(Content)
        IN  /\ (\E i \in 1..Len(w) : BarePrompt(w[i]))
                => (/\ RE_WAITING_INPUT(b)
                    /\ status = (IF "Error" \in Present THEN "Error" ELSE "WaitingForInput"))
            /\ status = Verdict(RE_ERROR(b), RE_WAITING_INPUT(b), RE_BUSY(b),
                                IdleWithoutBarePrompt(b))

\* a pane whose only markers are a `>` at the start of a line, which both
\* patterns match, was classified WaitingForInput
C29_Witness ==
    /\ status = "WaitingForInput"
    /\ Present = {"WaitingForInput", "Idle"}
    /\ \A i \in 1..Len(WindowLines) :
           WaitingMarker(WindowLines[i]) => WindowLines[i] = <<">">>

(***************************************************************************)
(* C30. Blank lines count toward the window: if the last 20 lines of the   *)
(* pane are all blank the result is Unknown, whatever the lines before     *)
(* them contain.                                                           *)
(***************************************************************************)
LastLinesBlank ==
    LET ls == lines(Content)
    IN  /\ Len(ls) >= WINDOW
        /\ \A i \in (Len(ls) - WINDOW + 1)..Len(ls) : Blanks(ls[i], 1, Len(ls[i]))

C30_BlankLinesCount ==
    (status # "Pending" /\ LastLinesBlank) => status = "Unknown"

\* an Error line followed by 20 blank lines was classified Unknown
C30_Witness ==
    /\ status = "Unknown"
    /\ LastLinesBlank
    /\ Len(lines(Content)) = WINDOW + 1
    /\ ErrorMarker(lines(Content)[1])

====
